---------------------------- MODULE Spec2Model ----------------------------
(***************************************************************************)
(* Model of stats_functions.py: the online StatisticsAccumulator, the      *)
(* helper mean_std_online, and the summation index of                      *)
(* sampling_distribution_cv.                                               *)
(*                                                                         *)
(* Arithmetic is exact: every number is a rational <<n, d>> in lowest      *)
(* terms with d > 0.  A Python value is a record                           *)
(*    [kind, shape, flat]                                                  *)
(* kind = "none" (None), "nan" (np.nan), "num" (a Python number, shape     *)
(* <<>>, flat of length 1), "arr" (a numpy array: its shape and its        *)
(* elements in row-major order), "sqrtnum"/"sqrtarr" (np.sqrt of a num /   *)
(* an arr: flat holds the radicands).  Arrays have rank 1 or 2.            *)
(* An optional shape (self.shape) is <<>> for None and <<dims>> for a      *)
(* tuple dims.                                                             *)
(***************************************************************************)
EXTENDS Integers, Sequences, FiniteSets, TLC

VARIABLES acc, acc0, hist, prev, lastOp, arg, ret, mso, cvcall

vars == <<acc, acc0, hist, prev, lastOp, arg, ret, mso, cvcall>>

---------------------------------------------------------------------------
(* Bounds of the model                                                     *)

\* add calls on one accumulator (specification Spec)
MaxCount == 2
\* add calls on one accumulator fed same-shaped samples (SpecStream)
MaxStream == 3
\* sample elements are the integers 0..MaxVal in SpecStream
MaxVal == 1
\* add and add_many calls feed one accumulator at most MaxMany values (SpecMany)
MaxMany == 2
\* ddof is drawn from 0..MaxDdof in SpecStream and in mean_std_online
MaxDdof == 1
\* length of the data handed to mean_std_online
MaxData == 2
\* num handed to sampling_distribution_cv is drawn from 2..MaxNum
MaxNum == 16

---------------------------------------------------------------------------
(* Exact rational arithmetic                                               *)

RECURSIVE GCD(_, _)
GCD(a, b) == IF b = 0 THEN a ELSE GCD(b, a % b)

Abs(n) == IF n < 0 THEN -n ELSE n

\* n/d in lowest terms, d # 0
Norm(n, d) ==
    LET s == IF d < 0 THEN -1 ELSE 1
        g == GCD(Abs(n), Abs(d))
    IN  <<(s * n) \div g, (s * d) \div g>>

Q(n) == <<n, 1>>
RAdd(p, q) == Norm(p[1] * q[2] + q[1] * p[2], p[2] * q[2])
RSub(p, q) == Norm(p[1] * q[2] - q[1] * p[2], p[2] * q[2])
RMul(p, q) == Norm(p[1] * q[1], p[2] * q[2])
RDiv(p, q) == Norm(p[1] * q[2], p[2] * q[1])

---------------------------------------------------------------------------
(* The numpy operations the accumulator uses                               *)

NoneVal == [kind |-> "none", shape |-> <<>>, flat |-> <<>>]
NaN == [kind |-> "nan", shape |-> <<>>, flat |-> <<>>]
Num(r) == [kind |-> "num", shape |-> <<>>, flat |-> <<r>>]
Arr(shape, flat) == [kind |-> "arr", shape |-> shape, flat |-> flat]

RECURSIVE prod(_)
prod(shape) == IF shape = <<>> THEN 1 ELSE Head(shape) * prod(Tail(shape))

\* a shape of rank <= 2 padded on the left with ones, as broadcasting does
Pad2(s) ==
    IF Len(s) = 0 THEN <<1, 1>> ELSE IF Len(s) = 1 THEN <<1, s[1]>> ELSE s

Max(a, b) == IF a >= b THEN a ELSE b

Broadcastable(s, t) ==
    \A k \in 1..2 : Pad2(s)[k] = Pad2(t)[k] \/ Pad2(s)[k] = 1 \/ Pad2(t)[k] = 1

BroadcastShape(s, t) ==
    LET r == Max(Pad2(s)[1], Pad2(t)[1])
        c == Max(Pad2(s)[2], Pad2(t)[2])
        rank == Max(Len(s), Len(t))
    IN  IF rank = 0 THEN <<>> ELSE IF rank = 1 THEN <<c>> ELSE <<r, c>>

\* element (i, j), 0-based, of v seen through broadcasting
Elem(v, i, j) ==
    LET p == Pad2(v.shape)
    IN  v.flat[(IF p[1] = 1 THEN 0 ELSE i) * p[2]
               + (IF p[2] = 1 THEN 0 ELSE j) + 1]

\* the scalar operation of a binary ufunc
Apply(op, x, y) ==
    CASE op = "add" -> RAdd(x, y)
      [] op = "subtract" -> RSub(x, y)
      [] op = "multiply" -> RMul(x, y)
      [] op = "divide" -> RDiv(x, y)

\* a binary ufunc on two broadcastable values
ufunc(op, a, b) ==
    LET s == BroadcastShape(a.shape, b.shape)
        p == Pad2(s)
    IN  [kind |-> IF a.kind = "num" /\ b.kind = "num" THEN "num" ELSE "arr",
         shape |-> s,
         flat |-> [k \in 1..(p[1] * p[2]) |->
                     Apply(op, Elem(a, (k - 1) \div p[2], (k - 1) % p[2]),
                               Elem(b, (k - 1) \div p[2], (k - 1) % p[2]))]]

np_add(a, b) == ufunc("add", a, b)
np_sub(a, b) == ufunc("subtract", a, b)
np_mul(a, b) == ufunc("multiply", a, b)
np_div(a, b) == ufunc("divide", a, b)

\* x += y : rebinds a Python number, writes into an array in place
IAddOk(x, y) ==
    /\ Broadcastable(x.shape, y.shape)
    /\ x.kind = "arr" => BroadcastShape(x.shape, y.shape) = x.shape

ravel(v) == Arr(<<Len(v.flat)>>, v.flat)

zeros(shape) == Arr(shape, [k \in 1..prod(shape) |-> Q(0)])

outer(a, b) ==
    LET n == Len(a.flat)
        m == Len(b.flat)
    IN  Arr(<<n, m>>, [k \in 1..(n * m) |->
                         RMul(a.flat[((k - 1) \div m) + 1], b.flat[((k - 1) % m) + 1])])

diagOk(v) == v.kind = "arr" /\ Len(v.shape) \in {1, 2}

diag(v) ==
    IF Len(v.shape) = 2
    THEN LET n == IF v.shape[1] <= v.shape[2] THEN v.shape[1] ELSE v.shape[2]
         IN  Arr(<<n>>, [k \in 1..n |-> v.flat[(k - 1) * v.shape[2] + k]])
    ELSE LET n == v.shape[1]
         IN  Arr(<<n, n>>, [k \in 1..(n * n) |->
                              IF (k - 1) \div n = (k - 1) % n
                              THEN v.flat[((k - 1) \div n) + 1] ELSE Q(0)])

reshapeOk(v, shape) == v.kind = "arr" /\ prod(shape) = Len(v.flat)

reshape(v, shape) == Arr(shape, v.flat)

np_sqrt(v) == [v EXCEPT !.kind = IF @ = "num" THEN "sqrtnum" ELSE "sqrtarr"]

---------------------------------------------------------------------------
(* StatisticsAccumulator                                                   *)

NoExc == ""

\* __init__(ddof, shape, ret_cov); shape is <<>> (None) or <<dims>>
accumulator(ddof, shape, ret_cov) ==
    IF shape = <<>>
    THEN [count |-> 0, ddof |-> ddof, ret_cov |-> ret_cov, shape |-> <<>>,
          mean |-> NoneVal, M2 |-> NoneVal]
    ELSE LET size == prod(shape[1])
         IN  [count |-> 0, ddof |-> ddof, ret_cov |-> ret_cov, shape |-> shape,
              mean |-> zeros(<<size>>),
              M2 |-> IF ret_cov THEN zeros(<<size, size>>) ELSE zeros(<<size>>)]

\* property mean
mean(a) ==
    IF a.shape = <<>>
    THEN [exc |-> NoExc, val |-> a.mean]
    ELSE IF reshapeOk(a.mean, a.shape[1])
         THEN [exc |-> NoExc, val |-> reshape(a.mean, a.shape[1])]
         ELSE [exc |-> "ValueError", val |-> NoneVal]

\* cov with its two checks in the other order
cov_swapped(a) ==
    IF ~a.ret_cov
    THEN [exc |-> "ValueError", val |-> NoneVal]
    ELSE IF a.count <= a.ddof
         THEN [exc |-> "RuntimeError", val |-> NoneVal]
         ELSE [exc |-> NoExc, val |-> np_div(a.M2, Num(Q(a.count - a.ddof)))]

\* property cov
cov(a) ==
    IF a.count <= a.ddof
    THEN [exc |-> "RuntimeError", val |-> NoneVal]
    ELSE IF ~a.ret_cov
         THEN [exc |-> "ValueError", val |-> NoneVal]
         ELSE [exc |-> NoExc, val |-> np_div(a.M2, Num(Q(a.count - a.ddof)))]

\* property var
var(a) ==
    IF a.count <= a.ddof
    THEN [exc |-> "RuntimeError", val |-> NoneVal]
    ELSE IF a.ret_cov /\ ~diagOk(a.M2)
         THEN [exc |-> "ValueError", val |-> NoneVal]
         ELSE LET v == IF a.ret_cov
                       THEN np_div(diag(a.M2), Num(Q(a.count - a.ddof)))
                       ELSE np_div(a.M2, Num(Q(a.count - a.ddof)))
              IN  IF a.shape = <<>>
                  THEN [exc |-> NoExc, val |-> v]
                  ELSE IF reshapeOk(v, a.shape[1])
                       THEN [exc |-> NoExc, val |-> reshape(v, a.shape[1])]
                       ELSE [exc |-> "ValueError", val |-> NoneVal]

\* property std
std(a) ==
    LET v == var(a)
    IN  IF v.exc # NoExc THEN v ELSE [exc |-> NoExc, val |-> np_sqrt(v.val)]

\* _initialize(value)
_initialize(a, value) ==
    IF value.kind = "arr"
    THEN LET size == prod(value.shape)
         IN  [a EXCEPT !.count = 1,
                       !.shape = <<value.shape>>,
                       !.mean = ravel(value),
                       !.M2 = IF a.ret_cov THEN zeros(<<size, size>>)
                                           ELSE zeros(<<size>>)]
    ELSE [a EXCEPT !.count = 1, !.shape = <<>>, !.mean = value,
                   !.M2 = Num(Q(0))]

\* the increment of _M2 in the ret_cov branch of add
cov_increment(M2, delta, count) ==
    np_sub(np_mul(Num(Q(count - 1)), outer(delta, delta)),
           np_div(M2, Num(Q(count))))

\* an increment that uses the old mean twice
var_increment_pre(delta, value, newmean) == np_mul(delta, delta)

\* the increment of _M2 in the variance branch of add
var_increment(delta, value, newmean) == np_mul(delta, np_sub(value, newmean))

\* add(value): the accumulator after the call and the exception it ends in
add(a, value0) ==
    IF a.mean.kind = "none"
    THEN [acc |-> _initialize(a, value0), exc |-> NoExc]
    ELSE
      LET value == IF a.shape # <<>> THEN ravel(value0) ELSE value0
          a1 == [a EXCEPT !.count = @ + 1]
      IN
      IF ~Broadcastable(value.shape, a.mean.shape)
      THEN [acc |-> a1, exc |-> "ValueError"]
      ELSE
        LET delta == np_sub(value, a.mean)
            step == np_div(delta, Num(Q(a1.count)))
        IN
        IF ~IAddOk(a.mean, step)
        THEN [acc |-> a1, exc |-> "ValueError"]
        ELSE
          LET a2 == [a1 EXCEPT !.mean = np_add(a.mean, step)]
              inc == IF a.ret_cov
                     THEN cov_increment(a.M2, delta, a1.count)
                     ELSE var_increment(delta, value, a2.mean)
              incOk == IF a.ret_cov
                       THEN Broadcastable(<<Len(delta.flat), Len(delta.flat)>>,
                                          a.M2.shape)
                       ELSE Broadcastable(delta.shape,
                                          BroadcastShape(value.shape, a2.mean.shape))
          IN
          IF ~incOk \/ ~IAddOk(a.M2, inc)
          THEN [acc |-> a2, exc |-> "ValueError"]
          ELSE [acc |-> [a2 EXCEPT !.M2 = np_add(a.M2, inc)], exc |-> NoExc]


\* add_many(arr_or_iter): the for loop; an exception of add ends it.
\* n counts the values taken from the iterator.
RECURSIVE add_many_from(_, _, _)
add_many_from(a, seq, n) ==
    IF seq = <<>>
    THEN [acc |-> a, exc |-> NoExc, n |-> n]
    ELSE LET r == add(a, Head(seq))
         IN  IF r.exc # NoExc
             THEN [acc |-> r.acc, exc |-> r.exc, n |-> n + 1]
             ELSE add_many_from(r.acc, Tail(seq), n + 1)

\* a loop that leaves out the first value
add_many_skip_first(a, seq) ==
    IF seq = <<>> THEN add_many_from(a, seq, 0)
    ELSE add_many_from(a, Tail(seq), 1)

add_many(a, seq) == add_many_from(a, seq, 0)

---------------------------------------------------------------------------
(* mean_std_online                                                         *)

Raise(e) == [exc |-> e, mean |-> NoneVal, std |-> NoneVal]

\* lines 149-159: am is what acc.mean gave, sd what acc.std gave
mso_return(am, sd) ==
    IF am.exc # NoExc THEN Raise(am.exc)
    ELSE IF sd.exc = "ValueError"
         THEN [exc |-> NoExc,
               mean |-> IF am.val.kind = "none" THEN NaN ELSE am.val,
               std |-> NaN]
    ELSE IF sd.exc # NoExc THEN Raise(sd.exc)
    ELSE [exc |-> NoExc,
          mean |-> IF am.val.kind = "none" THEN NaN ELSE am.val,
          std |-> sd.val]

\* lines 147-159: r is how acc.add_many(arr_or_iter) ended
mso_after(r) ==
    IF r.exc # NoExc THEN Raise(r.exc)
    ELSE mso_return(mean(r.acc), std(r.acc))

mean_std_online(data, ddof, shape) ==
    mso_after(add_many(accumulator(ddof, shape, FALSE), data))

---------------------------------------------------------------------------
(* sampling_distribution_cv: the indices its series is summed over         *)

\* range(start, stop, step) for step > 0
RECURSIVE range(_, _, _)
range(start, stop, step) ==
    IF start >= stop THEN <<>>
    ELSE <<start>> \o range(start + step, stop, step)

\* a range that stops two short of num
cv_indices_short(num) == range(1 - (num % 2), num - 1, 2)

\* the generator's range, line 244
cv_indices(num) == range(1 - (num % 2), num, 2)

\* the call: which branch it takes and the indices i of the terms it sums
sampling_distribution_cv(x, cv, num) ==
    IF x < 0
    THEN [ret |-> "zero", idx |-> <<>>]
    ELSE [ret |-> "res", idx |-> cv_indices(num)]


---------------------------------------------------------------------------
(* The inputs                                                              *)

Shapes == {<<1>>, <<2>>, <<1, 2>>}

OptShapes == {<<>>} \cup {<<s>> : s \in Shapes}

\* Python numbers and numpy arrays with elements 0..V
SamplesOver(V) ==
    {Num(Q(v)) : v \in 0..V}
    \cup UNION {{Arr(s, f) : f \in [1..prod(s) -> {Q(v) : v \in 0..V}]} : s \in Shapes}

Samples == SamplesOver(1)

StreamSamples == SamplesOver(MaxVal)

FlatSamples == {v \in Samples : Len(v.shape) <= 1}

SeqsUpTo(S, n) == UNION {[1..k -> S] : k \in 0..n}

NoCall == [exc |-> NoExc, val |-> NoneVal]

---------------------------------------------------------------------------
(* The state machine: one accumulator and the calls made on it (acc is the *)
(* object, acc0 the object as constructed, hist the values handed to add   *)
(* so far, prev the object before the last call, lastOp / arg / ret the    *)
(* last call, its argument and how it ended), one call of mean_std_online  *)
(* (mso) and one call of sampling_distribution_cv (cvcall).                *)

MsoIdle == [called |-> FALSE, data |-> <<>>, ddof |-> 0, shape |-> <<>>,
            res |-> Raise(NoExc)]

CvIdle == [called |-> FALSE, x |-> 0, cv |-> 1, num |-> 2,
           res |-> [ret |-> "", idx |-> <<>>]]

InitWith(a) ==
    /\ acc0 = a
    /\ acc = a
    /\ hist = <<>>
    /\ prev = a
    /\ lastOp = "__init__"
    /\ arg = <<>>
    /\ ret = NoCall
    /\ mso = MsoIdle
    /\ cvcall = CvIdle

\* ddof = 0 (population) or 1 (sample)
Init ==
    \E d \in {0, 1}, s \in OptShapes, rc \in BOOLEAN :
        InitWith(accumulator(d, s, rc))

InitStream ==
    \E d \in 0..MaxDdof, s \in OptShapes, rc \in BOOLEAN :
        InitWith(accumulator(d, s, rc))

InitFn == InitWith(accumulator(0, <<>>, FALSE))

Add(v) ==
    LET r == add(acc, v) IN
    /\ acc' = r.acc
    /\ ret' = [exc |-> r.exc, val |-> NoneVal]
    /\ hist' = Append(hist, v)
    /\ prev' = acc
    /\ lastOp' = "add"
    /\ arg' = <<v>>
    /\ UNCHANGED <<acc0, mso, cvcall>>

AddMany(seq) ==
    LET r == add_many(acc, seq) IN
    /\ acc' = r.acc
    /\ ret' = [exc |-> r.exc, val |-> NoneVal]
    /\ hist' = hist \o SubSeq(seq, 1, r.n)
    /\ prev' = acc
    /\ lastOp' = "add_many"
    /\ arg' = seq
    /\ UNCHANGED <<acc0, mso, cvcall>>

Read(name, r) ==
    /\ ret' = r
    /\ prev' = acc
    /\ lastOp' = name
    /\ arg' = <<>>
    /\ UNCHANGED <<acc, acc0, hist, mso, cvcall>>

ReadMean == Read("mean", mean(acc))
ReadCov == Read("cov", cov(acc))
ReadVar == Read("var", var(acc))
ReadStd == Read("std", std(acc))

MeanStdOnline(data, ddof, shape) ==
    /\ ~mso.called
    /\ mso' = [called |-> TRUE, data |-> data, ddof |-> ddof, shape |-> shape,
               res |-> mean_std_online(data, ddof, shape)]
    /\ UNCHANGED <<acc, acc0, hist, prev, lastOp, arg, ret, cvcall>>

SamplingDistributionCv(x, cv, num) ==
    /\ ~cvcall.called
    /\ cvcall' = [called |-> TRUE, x |-> x, cv |-> cv, num |-> num,
                  res |-> sampling_distribution_cv(x, cv, num)]
    /\ UNCHANGED <<acc, acc0, hist, prev, lastOp, arg, ret, mso>>

\* add and the accessors, any values
Next ==
    \/ \E v \in Samples : acc.count < MaxCount /\ Add(v)
    \/ ReadMean
    \/ ReadCov
    \/ ReadVar
    \/ ReadStd

Spec == Init /\ [][Next]_vars

\* add and add_many, numbers and flat arrays
NextMany ==
    \/ \E v \in FlatSamples : acc.count < MaxMany /\ Add(v)
    \/ \E seq \in SeqsUpTo(FlatSamples, MaxMany - acc.count) : AddMany(seq)

SpecMany == Init /\ [][NextMany]_vars

\* v has the shape the accumulator was given or took from its first value
Fits(v) ==
    IF hist = <<>>
    THEN acc0.shape = <<>> \/ (v.kind = "arr" /\ acc0.shape = <<v.shape>>)
    ELSE v.kind = hist[1].kind /\ v.shape = hist[1].shape

\* a stream of same-shaped values
NextStream ==
    \E v \in StreamSamples : acc.count < MaxStream /\ Fits(v) /\ Add(v)

SpecStream == InitStream /\ [][NextStream]_vars

NextMso ==
    \E data \in SeqsUpTo(Samples, MaxData), d \in 0..MaxDdof, s \in OptShapes :
        MeanStdOnline(data, d, s)

SpecMso == InitFn /\ [][NextMso]_vars

NextCv ==
    \E x \in -1..2, cv \in 1..2, num \in 2..MaxNum :
        SamplingDistributionCv(x, cv, num)

SpecCv == InitFn /\ [][NextCv]_vars


---------------------------------------------------------------------------
(* The batch formulas over the values added so far                         *)

RECURSIVE SumTo(_, _)
SumTo(f, n) == IF n = 0 THEN Q(0) ELSE RAdd(SumTo(f, n - 1), f[n])

N == Len(hist)

\* every value added has the shape of the first, which is the shape given
\* to the constructor when one was given
AllFit ==
    /\ hist # <<>>
    /\ \A i \in 1..N : hist[i].kind = hist[1].kind /\ hist[i].shape = hist[1].shape
    /\ acc0.shape = <<>> \/ (hist[1].kind = "arr" /\ acc0.shape = <<hist[1].shape>>)

Size == Len(hist[1].flat)

BatchMeanAt(k) == RDiv(SumTo([i \in 1..N |-> hist[i].flat[k]], N), Q(N))

\* sum over the samples of (x_j - mean_j)(x_k - mean_k), over N - ddof
BatchCovAt(j, k) ==
    RDiv(SumTo([i \in 1..N |->
                  RMul(RSub(hist[i].flat[j], BatchMeanAt(j)),
                       RSub(hist[i].flat[k], BatchMeanAt(k)))], N),
         Q(N - acc.ddof))

\* a value of the samples' shape with elements f[1..Size]
Shaped(f) ==
    IF hist[1].kind = "num" THEN Num(f[1])
    ELSE Arr(hist[1].shape, [k \in 1..Size |-> f[k]])

BatchMean == Shaped([k \in 1..Size |-> BatchMeanAt(k)])

BatchVar == Shaped([k \in 1..Size |-> BatchCovAt(k, k)])

BatchCov ==
    Arr(<<Size, Size>>,
        [k \in 1..(Size * Size) |->
           BatchCovAt(((k - 1) \div Size) + 1, ((k - 1) % Size) + 1)])

Returns(v) == [exc |-> NoExc, val |-> v]

---------------------------------------------------------------------------
(* Claims                                                                  *)

C2_BatchCovariance ==
    (acc.ret_cov /\ AllFit /\ hist[1].kind = "arr" /\ N > acc.ddof) =>
        /\ cov(acc) = Returns(BatchCov)
        /\ var(acc) = Returns(BatchVar)

\* C3: once the shape is fixed, an add of a value of another shape ends in
\* an error.
Mismatch(a, v) ==
    IF a.shape = <<>> THEN v.kind = "arr"
    ELSE v.kind # "arr" \/ a.shape # <<v.shape>>

C3_MismatchRaises ==
    (lastOp = "add" /\ prev.mean.kind # "none" /\ Mismatch(prev, arg[1]))
        => ret.exc # NoExc

\* C4: an add that ends in an error leaves count, mean, M2 and shape as they
\* were; an add that returns has counted its value.
C4_AddIsAtomic ==
    lastOp = "add" =>
        IF ret.exc # NoExc
        THEN /\ acc.count = prev.count
             /\ acc.mean = prev.mean
             /\ acc.M2 = prev.M2
             /\ acc.shape = prev.shape
        ELSE acc.count = prev.count + 1

\* C5: feeding the same same-shaped values in any other order ends with the
\* same count, mean and var, and the same cov when covariances are tracked.
InOrder(p) == add_many(acc0, [i \in 1..N |-> hist[p[i]]]).acc

C5_OrderInvariance ==
    AllFit =>
        \A p \in Permutations(1..N) :
            /\ InOrder(p).count = acc.count
            /\ mean(InOrder(p)) = mean(acc)
            /\ var(InOrder(p)) = var(acc)
            /\ acc.ret_cov => cov(InOrder(p)) = cov(acc)

\* C6: add_many(seq) ends as the calls add(seq[1]), add(seq[2]), ... made
\* one after the other do: same count, mean, M2 and shape, and every value
\* taken once, in order.
RECURSIVE OneByOne(_, _, _)
OneByOne(a, seq, k) ==
    IF k = 0 THEN [acc |-> a, exc |-> NoExc]
    ELSE LET r == OneByOne(a, seq, k - 1)
         IN  IF r.exc # NoExc THEN r ELSE add(r.acc, seq[k])

C6_AddManyIsRepeatedAdd ==
    lastOp = "add_many" =>
        /\ acc = OneByOne(prev, arg, Len(arg)).acc
        /\ ret.exc = OneByOne(prev, arg, Len(arg)).exc
        /\ ret.exc = NoExc =>
              /\ N = prev.count + Len(arg)
              /\ SubSeq(hist, prev.count + 1, N) = arg

C6_Witness ==
    /\ lastOp = "add_many" /\ Len(arg) = 2 /\ arg[1] # arg[2]
    /\ prev.count = 0 /\ acc.count = 2 /\ ret.exc = NoExc
    /\ acc.mean.flat # arg[2].flat

\* C7: mean_std_online of empty data returns (nan, nan) and does not fail.
C7_EmptyDataGivesNaN ==
    (mso.called /\ mso.data = <<>>) =>
        mso.res = [exc |-> NoExc, mean |-> NaN, std |-> NaN]

\* C8 as stated: without covariance tracking, reading cov fails with the
\* ValueError in every state and changes nothing.
C8_CovAlwaysValueError ==
    (lastOp = "cov" /\ ~prev.ret_cov) => (ret.exc = "ValueError" /\ acc = prev)

\* C8 amended: without covariance tracking, reading cov always fails and
\* changes nothing; it fails with the ValueError when count > ddof and with
\* the RuntimeError 'Too few items' when count <= ddof.
C8_CovFails ==
    (lastOp = "cov" /\ ~prev.ret_cov) =>
        /\ ret.exc = IF prev.count <= prev.ddof THEN "RuntimeError" ELSE "ValueError"
        /\ acc = prev

C8_Witness ==
    /\ lastOp = "cov" /\ ~prev.ret_cov /\ prev.count > prev.ddof
    /\ prev.count = 2 /\ ret.exc = "ValueError"

\* C9: var and std fail with the RuntimeError exactly when count <= ddof,
\* return M2/(count - ddof) (the diagonal of M2 when covariances are
\* tracked; its square root for std) when count > ddof, and change nothing.
VarOf(a) ==
    LET v == np_div(IF diagOk(a.M2) /\ a.ret_cov THEN diag(a.M2) ELSE a.M2,
                    Num(Q(a.count - a.ddof)))
    IN  IF a.shape = <<>> THEN v ELSE reshape(v, a.shape[1])

C9_VarFailsIffTooFew ==
    lastOp \in {"var", "std"} =>
        /\ acc = prev
        /\ ret.exc = "RuntimeError" <=> prev.count <= prev.ddof
        /\ prev.count > prev.ddof =>
              ret = Returns(IF lastOp = "var" THEN VarOf(prev)
                                              ELSE np_sqrt(VarOf(prev)))

\* C10 as stated: the series is summed over 1 - n mod 2, then every second
\* index, the largest being n - 2.
Lo == 1 - (cvcall.num % 2)

Summed == {cvcall.res.idx[k] : k \in 1..Len(cvcall.res.idx)}

C10_IndicesUpToNMinus2 ==
    (cvcall.called /\ cvcall.x >= 0) =>
        Summed = {i \in Lo..(cvcall.num - 2) : (i - Lo) % 2 = 0}

\* C10 amended: the series is summed, each index once and in increasing
\* order, over 1 - n mod 2, then every second index, the largest being n - 1.
C10_IndicesUpToNMinus1 ==
    (cvcall.called /\ cvcall.x >= 0) =>
        LET idx == cvcall.res.idx IN
        /\ Summed = {i \in Lo..(cvcall.num - 1) : (i - Lo) % 2 = 0}
        /\ idx[1] = Lo
        /\ idx[Len(idx)] = cvcall.num - 1
        /\ \A k \in 1..(Len(idx) - 1) : idx[k + 1] = idx[k] + 2

C10_Witness ==
    /\ cvcall.called /\ cvcall.x > 0 /\ cvcall.num = 7
    /\ cvcall.res.idx = <<0, 2, 4, 6>>

=============================================================================
